---------------------------- MODULE Spec2Model ----------------------------
(***************************************************************************)
(* GetStock 1.5: a blocking UDP server (server.py) holding a price         *)
(* catalog and a list of registered usernames, and a UDP client            *)
(* (client.py) that sends one request per user action and retries on       *)
(* timeout.                                                                *)
(*                                                                         *)
(* A Python str is modelled as a sequence of one-character strings, so     *)
(* that split / join / endswith / lower / isalnum / slicing are computed   *)
(* on the characters as the code computes them.  A datagram is such a      *)
(* sequence too; the pseudo-character XFF stands for a byte that is not    *)
(* valid UTF-8.                                                            *)
(***************************************************************************)
EXTENDS Naturals, Integers, Sequences, FiniteSets, Bags, TLC

VARIABLES
  reg_users,   \* server.py:107  the list of registered usernames
  srv_pc,      \* "serving" while in the serve loop, "crashed" once an exception left it
  lastReq,     \* history: the datagram the server received last (None before the first)
  lastResp,    \* history: the datagrams the server sent in answer to lastReq, in order
  prevUsers,   \* history: reg_users as it was when lastReq arrived
  regHist,     \* history: usernames whose latest REG/UNR answered ROK was a REG
  debug_mode,  \* client.py:77-79  whether the client was started with -debug
  cli_pc,      \* where the client is: "prompt", "wait" (in recvfrom), "exited",
               \* "crashed" (uncaught exception), "fatal" (socket error, exit -1)
  attempts,    \* client.py:104
  out_pkt,     \* client.py:100  the outgoing packet, None until one is built
  quote_csv,   \* client.py:106  the quotes asked for, None when not a quote
  c2s,         \* the datagrams in flight from the client to the server (a bag)
  s2c,         \* the datagrams in flight from the server to the client (a bag)
  actNo,       \* history: how many user actions the client has begun
  sent,        \* history: the packets transmitted during the current action
  timedOut,    \* history: how many waits of the current action ended in a timeout
  accepted,    \* history: the replies accepted in the current action (none, or one)
  printed,     \* history: the lines printed during the current action
  actInfo      \* history: what the current action is: its kind ("reg", "unr",
               \* "quo", "debug", "other", "none" before the first), whether its
               \* username was registered and whether nothing was in flight
               \* when it began

srvVars == <<reg_users, srv_pc, lastReq, lastResp, prevUsers, regHist>>
cliVars == <<debug_mode, cli_pc, attempts, out_pkt, quote_csv,
             actNo, sent, timedOut, accepted, printed, actInfo>>
netVars == <<c2s, s2c>>
vars == <<srvVars, cliVars, netVars>>

---------------------------------------------------------------------------
(* Characters and Python str methods                                       *)

UpperSeq == <<"A","B","C","D","E","F","G","H","I","J","K","L","M",
              "N","O","P","Q","R","S","T","U","V","W","X","Y","Z">>
LowerSeq == <<"a","b","c","d","e","f","g","h","i","j","k","l","m",
              "n","o","p","q","r","s","t","u","v","w","x","y","z">>
DigitSeq == <<"0","1","2","3","4","5","6","7","8","9">>

Range(f) == {f[i] : i \in DOMAIN f}

UpperChars == Range(UpperSeq)
LowerChars == Range(LowerSeq)
DigitChars == Range(DigitSeq)

\* the byte 0xFF, which no UTF-8 text contains
XFF == "0xFF"
\* Python's None, kept apart from every str
None == <<"None">>

AlnumChars == UpperChars \cup LowerChars \cup DigitChars

\* the lower-case letter of each upper-case letter
LowerMap ==
  [c \in UpperChars |-> LowerSeq[CHOOSE i \in DOMAIN UpperSeq : UpperSeq[i] = c]]

\* str.lower() on one character
LowerChar(c) == IF c \in UpperChars THEN LowerMap[c] ELSE c

\* str.lower()
Lower(s) == [i \in 1..Len(s) |-> LowerChar(s[i])]

\* str.isalnum(): non-empty and every character a letter or a digit
IsAlnum(s) ==
  /\ Len(s) > 0
  /\ \A i \in 1..Len(s) : s[i] \in AlnumChars

\* str.endswith(c) for a one-character c
EndsWith(s, c) == Len(s) > 0 /\ s[Len(s)] = c

\* s[0:-1] / s[:-1]: everything but the last character ("" stays "")
DropLast(s) == IF Len(s) = 0 THEN <<>> ELSE SubSeq(s, 1, Len(s) - 1)

\* str.split(sep) for a one-character sep: always at least one field
Split(s, sep) ==
  LET RECURSIVE go(_, _, _)
      go(i, cur, acc) ==
        IF i > Len(s) THEN Append(acc, cur)
        ELSE IF s[i] = sep THEN go(i + 1, <<>>, Append(acc, cur))
        ELSE go(i + 1, Append(cur, s[i]), acc)
  IN go(1, <<>>, <<>>)

\* sep.join(fields)
Join(fields, sep) ==
  LET RECURSIVE go(_)
      go(i) ==
        IF i > Len(fields) THEN <<>>
        ELSE IF i = Len(fields) THEN fields[i]
        ELSE fields[i] \o <<sep>> \o go(i + 1)
  IN go(1)

\* list[k:] for a 0-based k
SliceFrom(l, k) == IF k >= Len(l) THEN <<>> ELSE SubSeq(l, k + 1, Len(l))

\* x in list
InList(x, l) == \E i \in 1..Len(l) : l[i] = x

\* fault injection for C13: a removal that drops the last entry, whichever
\* it is
ListRemove_DropsLast(l, x) == SubSeq(l, 1, Len(l) - 1)

\* list.remove(x): drops the first occurrence
ListRemove(l, x) ==
  LET k == CHOOSE i \in 1..Len(l) : l[i] = x /\ \A j \in 1..(i - 1) : l[j] # x
  IN SubSeq(l, 1, k - 1) \o SubSeq(l, k + 1, Len(l))

\* bytes.decode("utf-8") raises UnicodeDecodeError on an invalid byte
DecodeFails(raw) == \E i \in 1..Len(raw) : raw[i] = XFF

---------------------------------------------------------------------------
(* server.py constants                                                     *)

MAX_SIZE == 4096
MAX_NAME == 32
QUOTE_FIELDS == 3
REG_FIELDS == 2
BAD_STOCK == <<"-","1">>

REG == <<"R","E","G">>
UNR == <<"U","N","R">>
QUO == <<"Q","U","O">>
ROK == <<"R","O","K">>
INC == <<"I","N","C">>
INP == <<"I","N","P">>
UAE == <<"U","A","E">>
INU == <<"I","N","U">>

IBM == <<"I","B","M">>
FB == <<"F","B">>
NFLX == <<"N","F","L","X">>

\* the catalog loaded at start-up (the stock file of the header comment,
\* cut to the two entries of which the third request ticker is a miss)
stock_dict ==
  (IBM :> <<"1","2","1",".","1","1">>) @@ (FB :> <<"2","3",".","2","2">>)

---------------------------------------------------------------------------
(* server.py: buildPacket and the body of the serve loop                   *)

\* fault injection for C5: buildPacket leaving out the tickers the catalog
\* does not hold instead of answering BAD_STOCK for them
buildPacket_SkipMissing(command, stock_csv) ==
  IF command = QUO /\ stock_csv # None
    THEN LET names == SelectSeq(Split(stock_csv, ","),
                                LAMBDA n : n \in DOMAIN stock_dict)
             price_list == [i \in 1..Len(names) |-> stock_dict[names[i]]]
             price_csv == Join(price_list, ",")
         IN ROK \o <<",">> \o price_csv \o <<";">>
    ELSE command \o <<";">>

\* server.py buildPacket(command, stock_csv=None)
buildPacket(command, stock_csv) ==
  IF command = QUO /\ stock_csv # None
    THEN LET names == Split(stock_csv, ",")
             price_list ==
               [i \in 1..Len(names) |->
                  IF names[i] \in DOMAIN stock_dict
                    THEN stock_dict[names[i]]
                    ELSE BAD_STOCK]
             price_csv == Join(price_list, ",")
         IN ROK \o <<",">> \o price_csv \o <<";">>
    ELSE command \o <<";">>

\* [A-Z]{2,5}
IsTicker(t) ==
  /\ Len(t) >= 2
  /\ Len(t) <= 5
  /\ \A i \in 1..Len(t) : t[i] \in UpperChars

\* the whole of s is ([A-Z]{2,5},)*[A-Z]{2,5}
FullMatchTickers(s) ==
  LET f == Split(s, ",") IN \A i \in 1..Len(f) : IsTicker(f[i])

\* re.match(r"^([A-Z]{2,5},)*[A-Z]{2,5}$", quotes_csv): Python's $ matches at
\* the end of the string and also just before a newline that ends the string
TickersMatch(quotes_csv) ==
  \/ FullMatchTickers(quotes_csv)
  \/ /\ EndsWith(quotes_csv, "\n")
     /\ FullMatchTickers(DropLast(quotes_csv))

\* server.py:146  the username test of the REG/UNR branch
RegNameBad(given_uname) ==
  Len(given_uname) > MAX_SIZE \/ ~IsAlnum(given_uname)

\* server.py:171  the username test of the QUO branch
QuoNameBad(given_uname) ==
  Len(given_uname) > MAX_NAME \/ ~IsAlnum(given_uname)

\* fault injection for C18: the REG/UNR branch keeping the username as
\* spelled
RegGivenName_NoLower(field) == DropLast(field)

\* server.py:142-143  strip ';' and make lowercase
RegGivenName(field) == Lower(DropLast(field))

\* fault injection for C9: the QUO branch comparing the username as spelled
QuoGivenName_NoLower(field) == field

\* server.py:169
QuoGivenName(field) == Lower(field)

\* fault injection for C2: REG registering without looking for the name
RegUnrBranch_NoDupCheck(users, recv_pkt_flds) ==
  LET given_command == recv_pkt_flds[1]
      given_uname == RegGivenName(recv_pkt_flds[2])
  IN IF RegNameBad(given_uname)
       THEN [send_pkt |-> buildPacket(INU, None), reg_users |-> users]
     ELSE IF given_command = REG
       THEN [send_pkt |-> buildPacket(ROK, None),
             reg_users |-> Append(users, given_uname)]
     ELSE IF given_command = UNR /\ ~InList(given_uname, users)
       THEN [send_pkt |-> buildPacket(UNR, None), reg_users |-> users]
     ELSE IF given_command = UNR /\ InList(given_uname, users)
       THEN [send_pkt |-> buildPacket(ROK, None),
             reg_users |-> ListRemove(users, given_uname)]
     ELSE [send_pkt |-> None, reg_users |-> users]

\* fault injection for C3: UNR answering ROK without removing the name
RegUnrBranch_UnrKeeps(users, recv_pkt_flds) ==
  LET given_command == recv_pkt_flds[1]
      given_uname == RegGivenName(recv_pkt_flds[2])
  IN IF RegNameBad(given_uname)
       THEN [send_pkt |-> buildPacket(INU, None), reg_users |-> users]
     ELSE IF given_command = REG /\ ~InList(given_uname, users)
       THEN [send_pkt |-> buildPacket(ROK, None),
             reg_users |-> Append(users, given_uname)]
     ELSE IF given_command = REG /\ InList(given_uname, users)
       THEN [send_pkt |-> buildPacket(UAE, None), reg_users |-> users]
     ELSE IF given_command = UNR /\ ~InList(given_uname, users)
       THEN [send_pkt |-> buildPacket(UNR, None), reg_users |-> users]
     ELSE IF given_command = UNR /\ InList(given_uname, users)
       THEN [send_pkt |-> buildPacket(ROK, None), reg_users |-> users]
     ELSE [send_pkt |-> None, reg_users |-> users]

\* server.py:141-164  the REG/UNR branch; the result is the packet to send
\* (None when no arm of the if/elif chain is taken) and the new user list
RegUnrBranch(users, recv_pkt_flds) ==
  LET given_command == recv_pkt_flds[1]
      given_uname == RegGivenName(recv_pkt_flds[2])
  IN IF RegNameBad(given_uname)
       THEN [send_pkt |-> buildPacket(INU, None), reg_users |-> users]
     ELSE IF given_command = REG /\ ~InList(given_uname, users)
       THEN [send_pkt |-> buildPacket(ROK, None),
             reg_users |-> Append(users, given_uname)]
     ELSE IF given_command = REG /\ InList(given_uname, users)
       THEN [send_pkt |-> buildPacket(UAE, None), reg_users |-> users]
     ELSE IF given_command = UNR /\ ~InList(given_uname, users)
       THEN [send_pkt |-> buildPacket(UNR, None), reg_users |-> users]
     ELSE IF given_command = UNR /\ InList(given_uname, users)
       THEN [send_pkt |-> buildPacket(ROK, None),
             reg_users |-> ListRemove(users, given_uname)]
     ELSE [send_pkt |-> None, reg_users |-> users]

\* fault injection for C4: the QUO branch serving any valid username
QuoBranch_NoRegCheck(users, recv_pkt_flds) ==
  LET given_uname == QuoGivenName(recv_pkt_flds[2])
      w_semicolon == Join(SliceFrom(recv_pkt_flds, 2), ",")
      quotes_csv == DropLast(w_semicolon)
  IN IF QuoNameBad(given_uname)
       THEN [send_pkt |-> buildPacket(INU, None), reg_users |-> users]
     ELSE IF TickersMatch(quotes_csv)
       THEN [send_pkt |-> buildPacket(QUO, quotes_csv), reg_users |-> users]
     ELSE [send_pkt |-> buildPacket(INP, None), reg_users |-> users]

\* fault injection for C14: the QUO branch looking at the ticker list before
\* it looks at the registration
QuoBranch_TickersFirst(users, recv_pkt_flds) ==
  LET given_uname == QuoGivenName(recv_pkt_flds[2])
      w_semicolon == Join(SliceFrom(recv_pkt_flds, 2), ",")
      quotes_csv == DropLast(w_semicolon)
  IN IF QuoNameBad(given_uname)
       THEN [send_pkt |-> buildPacket(INU, None), reg_users |-> users]
     ELSE IF ~TickersMatch(quotes_csv)
       THEN [send_pkt |-> buildPacket(INP, None), reg_users |-> users]
     ELSE IF ~InList(given_uname, users)
       THEN [send_pkt |-> buildPacket(UNR, None), reg_users |-> users]
     ELSE [send_pkt |-> buildPacket(QUO, quotes_csv), reg_users |-> users]

\* server.py:169-185  the QUO branch
QuoBranch(users, recv_pkt_flds) ==
  LET given_uname == QuoGivenName(recv_pkt_flds[2])
      w_semicolon == Join(SliceFrom(recv_pkt_flds, 2), ",")
      quotes_csv == DropLast(w_semicolon)
  IN IF QuoNameBad(given_uname)
       THEN [send_pkt |-> buildPacket(INU, None), reg_users |-> users]
     ELSE IF ~InList(given_uname, users)
       THEN [send_pkt |-> buildPacket(UNR, None), reg_users |-> users]
     ELSE IF TickersMatch(quotes_csv)
       THEN [send_pkt |-> buildPacket(QUO, quotes_csv), reg_users |-> users]
     ELSE [send_pkt |-> buildPacket(INP, None), reg_users |-> users]

\* server.py:134  the first test of the dispatch
UnknownCommand(field0) == field0 \notin {REG, UNR, QUO}

\* fault injection for C7: the REG/UNR guard not asking for the final ';'
IsRegUnrPacket_NoSemicolon(data, recv_pkt_flds) ==
  /\ Len(recv_pkt_flds) = REG_FIELDS
  /\ recv_pkt_flds[1] \in {REG, UNR}

\* server.py:138-139  the guard of the REG/UNR branch
IsRegUnrPacket(data, recv_pkt_flds) ==
  /\ Len(recv_pkt_flds) = REG_FIELDS
  /\ recv_pkt_flds[1] \in {REG, UNR}
  /\ EndsWith(recv_pkt_flds[2], ";")

\* server.py:167-168  the guard of the QUO branch
IsQuoPacket(data, recv_pkt_flds) ==
  /\ Len(recv_pkt_flds) >= QUOTE_FIELDS
  /\ recv_pkt_flds[1] = QUO
  /\ EndsWith(data, ";")

\* server.py:129-190  from the decoded text to the packet to send
ServeRequest(users, data) ==
  LET recv_pkt_flds == Split(data, ",")
  IN IF UnknownCommand(recv_pkt_flds[1])
       THEN [send_pkt |-> buildPacket(INC, None), reg_users |-> users]
     ELSE IF IsRegUnrPacket(data, recv_pkt_flds)
       THEN RegUnrBranch(users, recv_pkt_flds)
     ELSE IF IsQuoPacket(data, recv_pkt_flds)
       THEN QuoBranch(users, recv_pkt_flds)
     ELSE [send_pkt |-> buildPacket(INP, None), reg_users |-> users]

\* history only: the usernames whose latest REG/UNR answered ROK was a REG,
\* read off the request and the response on the wire
NextRegHist(hist, data, resp) ==
  LET f == Split(data, ",")
  IN IF resp = ROK \o <<";">> /\ Len(f) = 2 /\ f[1] = REG
       THEN hist \cup {Lower(DropLast(f[2]))}
     ELSE IF resp = ROK \o <<";">> /\ Len(f) = 2 /\ f[1] = UNR
       THEN hist \ {Lower(DropLast(f[2]))}
     ELSE hist

\* UnicodeDecodeError is no socket.error, and nothing else catches it: it
\* ends the process.  So does reaching sendto with no packet formed.
\* server.py:122-200  what one turn of the serve loop does with raw_data
\* when the user list is users: where the server is afterwards, the new
\* user list, and the datagrams sent
ServerOutcome(users, raw_data) ==
  IF DecodeFails(raw_data)
    THEN [pc |-> "crashed", reg_users |-> users, sent |-> <<>>]
    ELSE LET r == ServeRequest(users, raw_data)
         IN IF r.send_pkt = None
              THEN [pc |-> "crashed", reg_users |-> users, sent |-> <<>>]
              ELSE [pc |-> "serving", reg_users |-> r.reg_users,
                    sent |-> <<r.send_pkt>>]

\* server.py:119-200  one turn of the serve loop, with its history recorded
ServerRecv(raw_data) ==
  /\ srv_pc = "serving"
  /\ LET o == ServerOutcome(reg_users, raw_data)
     IN /\ srv_pc' = o.pc
        /\ reg_users' = o.reg_users
        /\ lastResp' = o.sent
        /\ regHist' = IF o.sent = <<>> THEN regHist
                      ELSE NextRegHist(regHist, raw_data, o.sent[1])
  /\ lastReq' = raw_data
  /\ prevUsers' = reg_users

\* server.py:203-206  Control-C closes the socket and ends the server
ServerInterrupt ==
  /\ srv_pc = "serving"
  /\ srv_pc' = "stopped"
  /\ UNCHANGED <<reg_users, lastReq, lastResp, prevUsers, regHist>>

---------------------------------------------------------------------------
(* The datagrams the server is offered                                     *)

\* how far the over-long username exceeds MAX_NAME
OverLen == 1

Repeat(c, n) == [i \in 1..n |-> c]

NameA == <<"a">>
NameUpperA == <<"A">>
\* exactly MAX_NAME characters, mixed case and a digit
NameMax == <<"B">> \o Repeat("b", MAX_NAME - 2) \o <<"1">>
\* longer than MAX_NAME, alphanumeric
NameLong == Repeat("a", MAX_NAME + OverLen)
NameEmpty == <<>>
NameBang == <<"a","!">>

Usernames == {NameA, NameUpperA, NameMax, NameLong, NameEmpty, NameBang}

\* request ticker sequences that follow the grammar: one ticker, a hit, a hit
\* and a miss in order, and one ticker twice
TickerSeqs == { <<IBM>>, <<IBM, FB, NFLX>>, <<FB, FB>> }

GoodTickerLists == {Join(ts, ",") : ts \in TickerSeqs}

BadTickerLists ==
  { <<"i","b","m",",">> \o FB,
    <<"A",",">> \o FB,
    IBM \o <<",">>,
    <<>>,
    <<"A","B","C","D","E","F">>,
    IBM \o <<";">>,
    IBM \o <<"\n">> }

TickerLists == GoodTickerLists \cup BadTickerLists

Terminators == {<<>>, <<";">>}

RegUnrDatagrams ==
  {c \o <<",">> \o u \o t : c \in {REG, UNR}, u \in Usernames, t \in Terminators}

QuoDatagrams ==
  {QUO \o <<",">> \o u \o <<",">> \o l \o <<";">> :
     u \in Usernames, l \in TickerLists}
  \cup {QUO \o <<",">> \o u \o <<",">> \o IBM : u \in {NameA, NameBang}}

FieldCountDatagrams ==
  {c \o t : c \in {REG, UNR, QUO}, t \in Terminators}
  \cup {c \o <<",">> \o NameA \o <<",">> \o NameA \o <<";">> : c \in {REG, UNR}}
  \cup {QUO \o <<",">> \o NameA \o t : t \in Terminators}

OtherDatagrams ==
  { <<>>,
    <<";">>,
    <<"H","E","Y",",">> \o NameA \o <<";">>,
    <<"r","e","g",",">> \o NameA \o <<";">>,
    <<XFF>>,
    REG \o <<",">> \o NameA \o <<XFF, ";">> }

Datagrams ==
  RegUnrDatagrams \cup QuoDatagrams \cup FieldCountDatagrams \cup OtherDatagrams

---------------------------------------------------------------------------
(* The server alone, offered any datagram in any order                     *)

InitServer ==
  /\ reg_users = <<>>
  /\ srv_pc = "serving"
  /\ lastReq = None
  /\ lastResp = <<>>
  /\ prevUsers = <<>>
  /\ regHist = {}

\* client.py:74-100  the client at its first prompt, nothing in flight
InitClient ==
  /\ cli_pc = "prompt"
  /\ attempts = 0
  /\ out_pkt = None
  /\ quote_csv = None
  /\ c2s = EmptyBag
  /\ s2c = EmptyBag
  /\ actNo = 0
  /\ sent = <<>>
  /\ timedOut = 0
  /\ accepted = <<>>
  /\ printed = <<>>
  /\ actInfo = [kind |-> "none", reg |-> FALSE, clean |-> TRUE]

Init ==
  /\ InitServer
  /\ InitClient
  /\ debug_mode = FALSE

Receive ==
  /\ \E d \in Datagrams : ServerRecv(d)
  /\ UNCHANGED <<cliVars, netVars>>

Interrupt ==
  /\ ServerInterrupt
  /\ UNCHANGED <<cliVars, netVars>>

Next ==
  \/ Receive
  \/ Interrupt

Spec == Init /\ [][Next]_vars

---------------------------------------------------------------------------
(* client.py                                                               *)

COM_FIELDS == 1
ATTEMPT_LIMIT == 3
C_BAD_STOCK == <<"-","1">>

\* client.py:58-72  buildPacket(cmd, u_name, stocks_csv=None)
c_buildPacket(cmd, u_name, stocks_csv) ==
  IF cmd \in {REG, UNR}
    THEN cmd \o <<",">> \o u_name \o <<";">>
  ELSE IF cmd = QUO /\ stocks_csv # None
    THEN cmd \o <<",">> \o u_name \o <<",">> \o stocks_csv \o <<";">>
  ELSE IF stocks_csv # None /\ stocks_csv # <<>>
    THEN cmd \o <<",">> \o u_name \o <<",">> \o stocks_csv \o <<";">>
  ELSE cmd \o <<",">> \o u_name \o <<";">>

\* client.py:90-97
response_codes ==
  (ROK :> "Request OK") @@ (INC :> "Invalid command")
  @@ (INP :> "Invalid parameter") @@ (UAE :> "Username already exists")
  @@ (UNR :> "Username not registered") @@ (INU :> "Invalid username")

\* a printed line: a message, or a stock with its price or "invalid stock"
MsgLine(m) == [kind |-> "msg", msg |-> m, stock |-> <<>>, value |-> <<>>]
PriceLine(st, v) == [kind |-> "price", msg |-> "", stock |-> st, value |-> v]
InvalidLine(st) == [kind |-> "invalid stock", msg |-> "", stock |-> st, value |-> <<>>]

MinOf(a, b) == IF a < b THEN a ELSE b

\* client.py:164-171  zip the quotes asked for with the prices received and
\* print each pair; zip stops at the shorter of the two
PriceTable(csv, response_fields) ==
  LET stocks == Split(csv, ",")
      prices == SliceFrom(response_fields, COM_FIELDS)
  IN [i \in 1..MinOf(Len(stocks), Len(prices)) |->
        IF prices[i] = C_BAD_STOCK
          THEN InvalidLine(stocks[i])
          ELSE PriceLine(stocks[i], prices[i])]

\* client.py:153-173  what the client does with a received datagram: the
\* lines it prints, and whether it got through (ok) or an exception that
\* nothing catches ended it: UnicodeDecodeError from decode, KeyError from
\* response_codes[...], AttributeError from quote_csv.split when quote_csv is
\* None
HandleReply(raw_data, csv) ==
  IF DecodeFails(raw_data)
    THEN [ok |-> FALSE, lines |-> <<>>]
  ELSE
    LET response == Split(raw_data, ";")
        response_fields == Split(response[1], ",")
    IN IF response_fields[1] \notin DOMAIN response_codes
         THEN [ok |-> FALSE, lines |-> <<>>]
       ELSE IF Len(response_fields) > 1
         THEN IF csv = None
                THEN [ok |-> FALSE,
                      lines |-> <<MsgLine(response_codes[response_fields[1]])>>]
                ELSE [ok |-> TRUE,
                      lines |-> <<MsgLine(response_codes[response_fields[1]])>>
                                \o PriceTable(csv, response_fields)]
       ELSE [ok |-> TRUE,
             lines |-> <<MsgLine(response_codes[response_fields[1]])>>]

\* fault injection for C10: the retry loop letting one more attempt through
LoopGuard_OffByOne(n) == n <= ATTEMPT_LIMIT

\* client.py:147  the guard of the retry loop
LoopGuard(n) == n < ATTEMPT_LIMIT

\* client.py:177  after a timeout: announce a retry, or that the limit is hit
RetryAnnounced(n) == n < ATTEMPT_LIMIT

\* fault injection: the attempt counter carried over from the last action
FreshAttempts_Stale(old) == old

\* client.py:104  the attempt counter a new action starts from
FreshAttempts(old) == 0

\* how many datagrams each direction of the network holds at most; a datagram
\* sent into a full direction is lost
MaxInFlight == 1
\* how many user actions the client is followed through
MaxActions == 2

\* a datagram in flight, with the number of the client action whose request
\* it is (or answers)
Msg(pkt, act) == [pkt |-> pkt, act |-> act]

NetSend(chan, m) ==
  IF BagCardinality(chan) < MaxInFlight THEN chan (+) SetToBag({m}) ELSE chan

NetTake(chan, m) == chan (-) SetToBag({m})

\* client.py:147-150  the top of the retry loop, reached with n attempts made
\* and pkt as out_pkt: leave the loop, or send and block in recvfrom.
\* sendto(None, ...) raises TypeError, which nothing catches.
LoopTop(n, pkt, act) ==
  IF ~LoopGuard(n)
    THEN /\ cli_pc' = "prompt"
         /\ attempts' = n
         /\ UNCHANGED <<c2s, sent>>
  ELSE IF pkt = None
    THEN /\ cli_pc' = "crashed"
         /\ attempts' = n
         /\ UNCHANGED <<c2s, sent>>
  ELSE /\ cli_pc' = "wait"
       /\ c2s' = NetSend(c2s, Msg(pkt, act))
       /\ sent' = Append(sent, pkt)
       /\ attempts' = n + 1

\* client.py:102-150  one pass from the prompt to the first recvfrom, for an
\* action that leaves pkt in out_pkt and csv in quote_csv
BeginAction(pkt, csv, kind, u_name) ==
  /\ cli_pc = "prompt"
  /\ actNo < MaxActions
  /\ actNo' = actNo + 1
  /\ actInfo' = [kind |-> kind,
                 reg |-> InList(Lower(u_name), reg_users),
                 clean |-> (c2s = EmptyBag /\ s2c = EmptyBag)]
  /\ out_pkt' = pkt
  /\ quote_csv' = csv
  /\ timedOut' = 0
  /\ accepted' = <<>>
  /\ printed' = <<>>
  /\ IF ~LoopGuard(FreshAttempts(attempts))
       THEN /\ cli_pc' = "prompt"
            /\ attempts' = FreshAttempts(attempts)
            /\ sent' = <<>>
            /\ UNCHANGED c2s
     ELSE IF pkt = None
       THEN /\ cli_pc' = "crashed"
            /\ attempts' = FreshAttempts(attempts)
            /\ sent' = <<>>
            /\ UNCHANGED c2s
     ELSE /\ cli_pc' = "wait"
          /\ c2s' = NetSend(c2s, Msg(pkt, actNo + 1))
          /\ sent' = <<pkt>>
          /\ attempts' = FreshAttempts(attempts) + 1
  /\ UNCHANGED <<debug_mode, s2c, srvVars>>

\* what the user types
ClientNames == {NameA}
ClientCsvs == {Join(<<IBM, NFLX>>, ",")}
DebugCommands == {<<"H","E","Y">>}
DebugCsvs == {<<>>}

\* client.py:116-119  choice in "rR"
ClientRegister ==
  \E u \in ClientNames : BeginAction(c_buildPacket(REG, u, None), None, "reg", u)

\* client.py:121-124  choice in "uU"
ClientUnregister ==
  \E u \in ClientNames : BeginAction(c_buildPacket(UNR, u, None), None, "unr", u)

\* client.py:126-130  choice in "qQ"
ClientQuote ==
  \E u \in ClientNames, csv \in ClientCsvs :
    BeginAction(c_buildPacket(QUO, u, csv), csv, "quo", u)

\* client.py:133-140  choice in "dD" in debug mode
ClientDebug ==
  /\ debug_mode
  /\ \E cmd \in DebugCommands, u \in ClientNames, csv \in DebugCsvs :
       IF csv = <<>>
         THEN BeginAction(c_buildPacket(cmd, u, None), csv, "debug", u)
         ELSE BeginAction(c_buildPacket(cmd, u, csv), csv, "debug", u)

\* client.py:116-147  a choice that no branch takes (for instance "x", or
\* "d" outside debug mode): nothing is built, out_pkt keeps its value
ClientOtherChoice == BeginAction(out_pkt, None, "other", <<>>)

\* client.py:143-144, 186-188  choice in "eE" or empty: leave and close
ClientExit ==
  /\ cli_pc = "prompt"
  /\ cli_pc' = "exited"
  /\ s2c' = EmptyBag
  /\ UNCHANGED <<debug_mode, attempts, out_pkt, quote_csv, actNo, sent,
                 timedOut, accepted, printed, actInfo, c2s, srvVars>>

\* fault injection for C12: a client that reads a reply to a request of an
\* earlier action, sets it aside and goes on waiting for a reply to its own
Recv_SkipsStale(keep) ==
  /\ cli_pc = "wait"
  /\ \E m \in BagToSet(s2c) :
       LET r == HandleReply(m.pkt, quote_csv)
       IN /\ accepted' = Append(accepted, m)
          /\ IF m.act < actNo
               THEN /\ cli_pc' = "wait"
                    /\ printed' = printed
                    /\ s2c' = IF keep THEN s2c ELSE NetTake(s2c, m)
               ELSE /\ printed' = printed \o r.lines
                    /\ cli_pc' = IF r.ok THEN "prompt" ELSE "crashed"
                    /\ s2c' = IF ~r.ok THEN EmptyBag
                              ELSE IF keep THEN s2c
                              ELSE NetTake(s2c, m)
  /\ UNCHANGED <<debug_mode, attempts, out_pkt, quote_csv, actNo, sent,
                 timedOut, actInfo, c2s, srvVars>>

\* client.py:153-173  recvfrom returns the datagram m; with keep, the network
\* has duplicated m and a copy of it stays in flight
Recv(keep) ==
  /\ cli_pc = "wait"
  /\ \E m \in BagToSet(s2c) :
       LET r == HandleReply(m.pkt, quote_csv)
       IN /\ printed' = printed \o r.lines
          /\ accepted' = Append(accepted, m)
          /\ cli_pc' = IF r.ok THEN "prompt" ELSE "crashed"
          /\ s2c' = IF ~r.ok THEN EmptyBag
                    ELSE IF keep THEN s2c
                    ELSE NetTake(s2c, m)
  /\ UNCHANGED <<debug_mode, attempts, out_pkt, quote_csv, actNo, sent,
                 timedOut, actInfo, c2s, srvVars>>

ClientRecv == Recv(FALSE)

ClientRecvDuplicated == Recv(TRUE)

\* client.py:176-180, 147-150  recvfrom times out after 5 seconds
ClientTimeout ==
  /\ cli_pc = "wait"
  /\ timedOut' = timedOut + 1
  /\ printed' = Append(printed,
                       IF RetryAnnounced(attempts)
                         THEN MsgLine("timeout -- retry...")
                         ELSE MsgLine("timeout limit exceeded"))
  /\ LoopTop(attempts, out_pkt, actNo)
  /\ UNCHANGED <<debug_mode, out_pkt, quote_csv, actNo, accepted, actInfo, s2c,
                 srvVars>>

\* client.py:182-184  recvfrom fails otherwise: "Socket error!", exit(-1)
ClientSocketError ==
  /\ cli_pc = "wait"
  /\ cli_pc' = "fatal"
  /\ s2c' = EmptyBag
  /\ UNCHANGED <<debug_mode, attempts, out_pkt, quote_csv, actNo, sent,
                 timedOut, accepted, printed, actInfo, c2s, srvVars>>

---------------------------------------------------------------------------
(* Client, network and server together                                     *)

\* whether the client still has its socket open
ClientAlive == cli_pc \in {"prompt", "wait"}

\* server.py:119-200  the server takes a datagram off the network and sends
\* its answer back towards the client (an answer to a closed socket is
\* dropped); with keep, the network has duplicated the request and a copy of
\* it stays in flight.  The server's history variables are kept for the
\* server on its own and are not recorded here.
Serve(keep) ==
  /\ srv_pc = "serving"
  /\ \E m \in BagToSet(c2s) :
       LET o == ServerOutcome(reg_users, m.pkt)
       IN /\ srv_pc' = o.pc
          /\ reg_users' = o.reg_users
          /\ c2s' = IF keep THEN c2s ELSE NetTake(c2s, m)
          /\ s2c' = IF Len(o.sent) = 1 /\ ClientAlive
                      THEN NetSend(s2c, Msg(o.sent[1], m.act))
                      ELSE s2c
  /\ UNCHANGED <<lastReq, lastResp, prevUsers, regHist, cliVars>>

ServerServe == Serve(FALSE)

ServerServeDuplicated == Serve(TRUE)

\* the network loses a datagram
LoseRequest ==
  /\ \E m \in BagToSet(c2s) : c2s' = NetTake(c2s, m)
  /\ UNCHANGED <<s2c, cliVars, srvVars>>

LoseReply ==
  /\ \E m \in BagToSet(s2c) : s2c' = NetTake(s2c, m)
  /\ UNCHANGED <<c2s, cliVars, srvVars>>

\* the client starts against a running server, at which an earlier client
\* session may have left its user registered
SysInit ==
  /\ reg_users \in {<<>>, <<NameA>>}
  /\ srv_pc = "serving"
  /\ lastReq = None
  /\ lastResp = <<>>
  /\ prevUsers = <<>>
  /\ regHist = {}
  /\ InitClient
  /\ debug_mode \in BOOLEAN

SysNext ==
  \/ ClientRegister
  \/ ClientUnregister
  \/ ClientQuote
  \/ ClientDebug
  \/ ClientOtherChoice
  \/ ClientExit
  \/ ClientRecv
  \/ ClientRecvDuplicated
  \/ ClientTimeout
  \/ ClientSocketError
  \/ ServerServe
  \/ ServerServeDuplicated
  \/ LoseRequest
  \/ LoseReply

SysSpec == SysInit /\ [][SysNext]_vars

\* client.py:84  c_sock.settimeout(5): a recvfrom that gets no datagram raises
\* timeout after 5 seconds, so no wait lasts for ever
SysFairSpec == SysSpec /\ WF_vars(ClientTimeout)

\* the same over a network that loses and delays datagrams but never
\* duplicates one
LossyNext ==
  \/ ClientRegister
  \/ ClientUnregister
  \/ ClientQuote
  \/ ClientDebug
  \/ ClientOtherChoice
  \/ ClientExit
  \/ ClientRecv
  \/ ClientTimeout
  \/ ClientSocketError
  \/ ServerServe
  \/ LoseRequest
  \/ LoseReply

LossySpec == SysInit /\ [][LossyNext]_vars

---------------------------------------------------------------------------
(* Vocabulary of the properties                                            *)

\* the wire text of a request: command and fields joined by commas, then ';'
Wire(fields) == Join(fields, ",") \o <<";">>

Resp(code) == <<code \o <<";">>>>

\* a username as the protocol defines it: non-empty, alphanumeric, at most
\* MAX_NAME characters
ValidName(u) == Len(u) >= 1 /\ Len(u) <= MAX_NAME /\ IsAlnum(u)

ValidUsernames == {u \in Usernames : ValidName(u)}
InvalidUsernames == {u \in Usernames : ~ValidName(u)}

Registered(u, users) == \E i \in 1..Len(users) : users[i] = Lower(u)

HasSemicolon(d) == \E i \in 1..Len(d) : d[i] = ";"

\* the catalog price of a ticker, or the sentinel
PriceOf(t) == IF t \in DOMAIN stock_dict THEN stock_dict[t] ELSE <<"-","1">>

---------------------------------------------------------------------------
(* Properties of the server                                                *)

\* C1 (as claimed): every datagram received, whatever its bytes, is answered
\* with exactly one response datagram and leaves the server in its serve
\* loop.
C1_ExactlyOneResponse ==
  lastReq # None => (Len(lastResp) = 1 /\ srv_pc # "crashed")

\* C2: a well-formed REG for a valid username u is answered ROK and leaves u
\* registered when u was not registered, and is answered UAE (store
\* untouched) when u was registered; hence a second REG,u; right after the
\* first is answered UAE.
C2_Register ==
  \A u \in ValidUsernames :
    lastReq = Wire(<<REG, u>>) =>
      IF Registered(u, prevUsers)
        THEN lastResp = Resp(UAE) /\ reg_users = prevUsers
        ELSE lastResp = Resp(ROK) /\ Registered(u, reg_users)

C2_Witness ==
  /\ lastReq = Wire(<<REG, NameUpperA>>)
  /\ lastResp = Resp(UAE)
  /\ Registered(NameA, prevUsers)

\* C3: a well-formed UNR for a valid username u is answered ROK and leaves u
\* not registered when u was registered, and is answered UNR when u was not
\* registered; either way u is not registered afterwards, so a following
\* UNR,u; is answered UNR and a following REG,u; is answered ROK.
C3_Unregister ==
  \A u \in ValidUsernames :
    lastReq = Wire(<<UNR, u>>) =>
      /\ IF Registered(u, prevUsers)
           THEN lastResp = Resp(ROK)
           ELSE lastResp = Resp(UNR) /\ reg_users = prevUsers
      /\ ~Registered(u, reg_users)
      /\ ServeRequest(reg_users, Wire(<<UNR, u>>)).send_pkt = UNR \o <<";">>
      /\ ServeRequest(reg_users, Wire(<<REG, u>>)).send_pkt = ROK \o <<";">>

C3_Witness ==
  /\ lastReq = Wire(<<UNR, NameA>>)
  /\ lastResp = Resp(ROK)
  /\ Registered(NameA, prevUsers)
  /\ Len(reg_users) >= 1

\* C4: a QUO datagram is answered ROK with price fields only if its
\* lowercased username is in the store at that moment, and the store holds
\* exactly the usernames whose latest REG/UNR answered ROK was a REG; a
\* well-formed QUO with a valid but unregistered username is answered UNR;
\* and nothing else.
C4_QuoteNeedsRegistration ==
  /\ {reg_users[i] : i \in 1..Len(reg_users)} = regHist
  /\ \A d \in Datagrams :
       ( /\ lastReq = d
         /\ Len(d) >= 3
         /\ SubSeq(d, 1, 3) = QUO
         /\ Len(lastResp) = 1
         /\ Len(lastResp[1]) > 4
         /\ SubSeq(lastResp[1], 1, 4) = ROK \o <<",">> )
       => /\ Len(Split(d, ",")) >= 2
          /\ Registered(Split(d, ",")[2], prevUsers)
          /\ Lower(Split(d, ",")[2]) \in regHist
  /\ \A u \in ValidUsernames, l \in TickerLists :
       (lastReq = Wire(<<QUO, u, l>>) /\ ~Registered(u, prevUsers))
         => lastResp = Resp(UNR)

C4_Witness ==
  /\ lastReq = Wire(<<QUO, NameUpperA, IBM>>)
  /\ Len(reg_users) = 2
  /\ reg_users[2] = NameA
  /\ lastResp = <<ROK \o <<",">> \o stock_dict[IBM] \o <<";">>>>

\* C5: a QUO from a registered user with a grammatical ticker list t1,...,tn
\* is answered ROK followed by exactly n price fields, field i the catalog
\* price of ti or -1 for a miss, in request order, repeats kept.
C5_PricesInOrder ==
  \A u \in ValidUsernames, ts \in TickerSeqs :
    (lastReq = Wire(<<QUO, u>> \o ts) /\ Registered(u, prevUsers)) =>
      /\ Len(lastResp) = 1
      /\ EndsWith(lastResp[1], ";")
      /\ Split(DropLast(lastResp[1]), ",")
           = <<ROK>> \o [i \in 1..Len(ts) |-> PriceOf(ts[i])]

C5_Witness ==
  /\ lastReq = Wire(<<QUO, NameA, IBM, FB, NFLX>>)
  /\ lastResp = << ROK \o <<",">> \o stock_dict[IBM] \o <<",">>
                     \o stock_dict[FB] \o <<",", "-", "1", ";">> >>

\* C6 (as claimed): for REG, UNR and QUO alike, a well-formed datagram whose
\* username is longer than MAX_NAME, empty or not alphanumeric is answered
\* INU and leaves the store unchanged.
C6_InvalidNameRejected ==
  \A u \in InvalidUsernames :
    ( \/ lastReq = Wire(<<REG, u>>)
      \/ lastReq = Wire(<<UNR, u>>)
      \/ \E l \in GoodTickerLists : lastReq = Wire(<<QUO, u, l>>) )
    => (lastResp = Resp(INU) /\ reg_users = prevUsers)

\* C7 (as claimed): a text datagram with no ';' at all is answered INC,
\* whatever command token it starts with.
C7_NoTerminatorIsINC ==
  (lastReq # None /\ ~DecodeFails(lastReq) /\ ~HasSemicolon(lastReq))
    => lastResp = Resp(INC)

\* the datagram is exactly a command token, or starts with one and a comma
StartsWithCommand(d) ==
  \E c \in {REG, UNR, QUO} :
    \/ d = c
    \/ (Len(d) > 3 /\ SubSeq(d, 1, 4) = c \o <<",">>)

\* C7 (amended): a text datagram with no ';' at all is answered INP when its
\* first comma-separated field is exactly REG, UNR or QUO, and INC otherwise;
\* the store is unchanged either way.
C7_NoTerminator ==
  (lastReq # None /\ ~DecodeFails(lastReq) /\ ~HasSemicolon(lastReq))
    => /\ lastResp = IF StartsWithCommand(lastReq) THEN Resp(INP) ELSE Resp(INC)
       /\ reg_users = prevUsers

C7_Witness ==
  /\ lastReq = REG \o <<",">> \o NameA
  /\ lastResp = Resp(INP)
  /\ Len(reg_users) >= 1

\* the ';'-terminated datagrams with a wrong field count
WrongFieldCount ==
  { Wire(<<REG>>), Wire(<<UNR>>), Wire(<<QUO>>),
    Wire(<<REG, NameA, NameA>>), Wire(<<UNR, NameA, NameA>>),
    Wire(<<QUO, NameA>>) }

\* C8 (as claimed): a ';'-terminated REG or UNR datagram with a field count
\* other than 2, and a ';'-terminated QUO datagram with fewer than 3 fields,
\* is answered INP and leaves the store unchanged.
C8_WrongFieldCountIsINP ==
  lastReq \in WrongFieldCount
    => (lastResp = Resp(INP) /\ reg_users = prevUsers)

\* str.upper(), to spell a username in the other case
UpperMap ==
  [c \in LowerChars |-> UpperSeq[CHOOSE i \in DOMAIN LowerSeq : LowerSeq[i] = c]]
Upper(s) == [i \in 1..Len(s) |-> IF s[i] \in LowerChars THEN UpperMap[s[i]] ELSE s[i]]

CaseVariants(u) == {u, Lower(u), Upper(u)}

\* what follows the username in a request
Rests ==
  {<<>>, <<";">>} \cup {<<",">> \o l \o <<";">> : l \in TickerLists}

\* C9: usernames are case-insensitive in REG, UNR and QUO: had the datagram
\* just served spelled its username in another letter case, the server would
\* have sent the same response and ended with the same store.
C9_CaseInsensitive ==
  \A c \in {REG, UNR, QUO}, u \in Usernames, r \in Rests :
    lastReq = c \o <<",">> \o u \o r =>
      \A v \in CaseVariants(u) :
        LET other == ServeRequest(prevUsers, c \o <<",">> \o v \o r)
        IN lastResp = <<other.send_pkt>> /\ reg_users = other.reg_users

C9_Witness ==
  /\ lastReq = Wire(<<QUO, NameMax, FB, FB>>)
  /\ lastResp = << ROK \o <<",">> \o stock_dict[FB] \o <<",">>
                     \o stock_dict[FB] \o <<";">> >>
  /\ prevUsers = <<Lower(NameMax)>>

---------------------------------------------------------------------------
(* Properties of the client                                                *)

\* how many times the current action has reported "timeout limit exceeded"
ExhaustionReports ==
  Cardinality({i \in 1..Len(printed) :
                 printed[i] = MsgLine("timeout limit exceeded")})

\* C10: in every client action, whatever came before it: at most
\* ATTEMPT_LIMIT copies of the request are transmitted, all identical; copy
\* n+1 is transmitted only after wait n ended in a timeout; nothing is
\* transmitted once a reply has been accepted; and timeout exhaustion is
\* reported exactly once, after the ATTEMPT_LIMIT-th timeout in a row, with no
\* further copy sent.
C10_BoundedRetry ==
  /\ Len(sent) <= ATTEMPT_LIMIT
  /\ timedOut <= ATTEMPT_LIMIT
  /\ \A i \in 1..Len(sent) : sent[i] = out_pkt
  /\ Len(sent) > 0 => Len(sent) = MinOf(timedOut + 1, ATTEMPT_LIMIT)
  /\ Len(sent) = 0 => (timedOut = 0 /\ accepted = <<>>)
  /\ cli_pc = "wait" => (accepted = <<>> /\ Len(sent) = timedOut + 1)
  /\ accepted # <<>> => (Len(sent) = timedOut + 1 /\ cli_pc # "wait")
  /\ ExhaustionReports = (IF timedOut = ATTEMPT_LIMIT THEN 1 ELSE 0)
  /\ timedOut = ATTEMPT_LIMIT => (accepted = <<>> /\ cli_pc # "wait")
  /\ Len(accepted) <= 1

C10_Witness ==
  /\ actNo = 2
  /\ cli_pc = "prompt"
  /\ timedOut = ATTEMPT_LIMIT
  /\ Len(sent) = ATTEMPT_LIMIT
  /\ printed[Len(printed)] = MsgLine("timeout limit exceeded")
  /\ Len(reg_users) = 1


---------------------------------------------------------------------------
(* C11  Over a network that may lose, delay and duplicate datagrams, no    *)
(* datagram received from the server makes the client abort: whatever it   *)
(* accepts, the client is never ended by an exception raised while         *)
(* handling it.                                                            *)

C11_NoReplyAborts == ~(cli_pc = "crashed" /\ accepted # <<>>)

---------------------------------------------------------------------------
(* C12  The client accepts the first datagram it receives during an action *)
(* without correlating it to the request: whichever action's request the   *)
(* datagram answers, receiving it ends the action at once and it is what   *)
(* gets rendered, after the lines of the timeouts before it.  So the reply *)
(* accepted for one action can be the server's answer to a request of an   *)
(* earlier action (the witness).                                           *)

C12_FirstDatagramAccepted ==
  accepted # <<>> =>
    /\ Len(accepted) = 1
    /\ cli_pc # "wait"
    /\ accepted[1].act \in 1..actNo
    /\ Len(printed) >= timedOut
    /\ SubSeq(printed, timedOut + 1, Len(printed))
         = HandleReply(accepted[1].pkt, quote_csv).lines

\* an unregister action has accepted and rendered "Username already exists",
\* the answer to the register request of the action before it
C12_Witness ==
  /\ cli_pc = "prompt"
  /\ actInfo.kind = "unr"
  /\ accepted # <<>>
  /\ accepted[1].act < actNo
  /\ <<accepted[1].pkt>> = Resp(UAE)
  /\ printed = <<MsgLine(response_codes[UAE])>>


---------------------------------------------------------------------------
\* the usernames in a user list
Members(users) == {users[i] : i \in 1..Len(users)}

\* the username of a two-field request: the text between the command's comma
\* and the final ';', lowercased
NameOnWire(d) == Lower(SubSeq(d, 5, Len(d) - 1))

\* C13: frame condition on the Registration Store.  A datagram answered INC,
\* INP, INU, UAE or UNR, and every QUO datagram whatever its answer, leaves
\* the store exactly as it was.  An answer ROK is given only to a REG, which
\* then adds exactly its one username, or to a UNR, which then removes exactly
\* its one username; the membership of every other username is unchanged.
C13_Frame ==
  (lastReq # None /\ Len(lastResp) = 1) =>
    /\ lastResp \in {Resp(c) : c \in {INC, INP, INU, UAE, UNR}}
         => reg_users = prevUsers
    /\ (Len(lastReq) >= 3 /\ SubSeq(lastReq, 1, 3) = QUO)
         => reg_users = prevUsers
    /\ lastResp = Resp(ROK) =>
         /\ Len(lastReq) > 5
         /\ SubSeq(lastReq, 1, 4) \in {REG \o <<",">>, UNR \o <<",">>}
         /\ IF SubSeq(lastReq, 1, 3) = REG
              THEN /\ NameOnWire(lastReq) \notin Members(prevUsers)
                   /\ Members(reg_users)
                        = Members(prevUsers) \cup {NameOnWire(lastReq)}
                   /\ Len(reg_users) = Len(prevUsers) + 1
              ELSE /\ NameOnWire(lastReq) \in Members(prevUsers)
                   /\ Members(reg_users)
                        = Members(prevUsers) \ {NameOnWire(lastReq)}
                   /\ Len(reg_users) = Len(prevUsers) - 1

\* a UNR answered ROK has removed the first of three registered usernames
\* and kept the other two
C13_Witness ==
  /\ lastReq = Wire(<<UNR, NameUpperA>>)
  /\ lastResp = Resp(ROK)
  /\ Len(prevUsers) = 3
  /\ prevUsers[1] = NameA
  /\ reg_users = Tail(prevUsers)


---------------------------------------------------------------------------
\* C14: for a ';'-terminated QUO datagram with at least 3 fields the checks
\* come in the order username validity, registration, ticker grammar: an
\* invalid username is answered INU even if the user is unregistered or the
\* ticker list malformed; a valid but unregistered username is answered UNR
\* even if the ticker list is malformed; INP for a bad ticker list goes only
\* to a registered user.
C14_CheckOrder ==
  \A u \in Usernames, l \in TickerLists :
    lastReq = Wire(<<QUO, u, l>>) =>
      /\ ~ValidName(u) => lastResp = Resp(INU)
      /\ (ValidName(u) /\ ~Registered(u, prevUsers)) => lastResp = Resp(UNR)
      /\ lastResp = Resp(INP) => (ValidName(u) /\ Registered(u, prevUsers))

\* a valid username that is not registered, with a one-letter ticker,
\* answered UNR while another user is registered
C14_Witness ==
  /\ lastReq = Wire(<<QUO, NameMax, <<"A", ",">> \o FB>>)
  /\ lastResp = Resp(UNR)
  /\ ~Registered(NameMax, prevUsers)
  /\ Registered(NameA, prevUsers)


---------------------------------------------------------------------------
\* C15 (as claimed): a QUO datagram from a registered user is answered ROK
\* with prices if and only if the whole ticker list, the text after the
\* username without the final ';', is one or more comma-separated tickers of
\* 2 to 5 uppercase letters; any other list is answered INP; with no price
\* field.
C15_TickerGrammar ==
  \A u \in ValidUsernames, l \in TickerLists :
    (lastReq = Wire(<<QUO, u, l>>) /\ Registered(u, prevUsers)) =>
      IF FullMatchTickers(l)
        THEN /\ Len(lastResp) = 1
             /\ Len(lastResp[1]) > 4
             /\ SubSeq(lastResp[1], 1, 4) = ROK \o <<",">>
        ELSE lastResp = Resp(INP)


---------------------------------------------------------------------------
\* C16: every client action ends.  Given that each wait for a reply ends with
\* a datagram or with a timeout (a transport fault aside), an action that has
\* sent its request stops waiting, a reply accepted or the retry budget
\* exhausted; and the next action starts anew, with a zero attempt counter
\* (one once its request is sent), no timeout and no reply counted, and no
\* ticker list recorded unless it records its own.
C16_ActionEnds ==
  /\ (cli_pc = "wait") ~>
       ( /\ cli_pc # "wait"
         /\ \/ accepted # <<>>
            \/ timedOut = ATTEMPT_LIMIT
            \/ cli_pc = "fatal" )
  /\ [][ actNo' # actNo =>
           /\ attempts' = (IF cli_pc' = "wait" THEN 1 ELSE 0)
           /\ timedOut' = 0
           /\ accepted' = <<>>
           /\ (quote_csv' = None \/ actInfo'.kind \in {"quo", "debug"}) ]_vars

\* a second action, begun after the first had ended, has itself run out of
\* attempts after exactly ATTEMPT_LIMIT of them
C16_Witness ==
  /\ actNo = 2
  /\ cli_pc = "prompt"
  /\ accepted = <<>>
  /\ timedOut = ATTEMPT_LIMIT
  /\ attempts = ATTEMPT_LIMIT


---------------------------------------------------------------------------
\* C17 (as claimed): every datagram the client transmits during an action is
\* the one message built from that action's own command and inputs (REG and
\* UNR: command and username; QUO: command, username and ticker CSV); an
\* action whose menu choice is not recognised transmits nothing, and so does
\* not retransmit the message of a previous action.
C17_OwnMessageOnly ==
  /\ actInfo.kind = "other" => sent = <<>>
  /\ actInfo.kind = "reg" =>
       \E u \in ClientNames :
         \A i \in 1..Len(sent) : sent[i] = Wire(<<REG, u>>)
  /\ actInfo.kind = "unr" =>
       \E u \in ClientNames :
         \A i \in 1..Len(sent) : sent[i] = Wire(<<UNR, u>>)
  /\ actInfo.kind = "quo" =>
       \E u \in ClientNames, csv \in ClientCsvs :
         \A i \in 1..Len(sent) : sent[i] = Wire(<<QUO, u, csv>>)


---------------------------------------------------------------------------
\* C18: in every reachable state of the server the Registration Store, kept
\* as a list, is a set of usernames: it is empty before the first datagram,
\* no username occurs in it more than once, and every entry is non-empty,
\* purely alphanumeric and already lowercased.
C18_StoreIsSet ==
  /\ lastReq = None => reg_users = <<>>
  /\ \A i, j \in 1..Len(reg_users) : reg_users[i] = reg_users[j] => i = j
  /\ \A i \in 1..Len(reg_users) :
       /\ Len(reg_users[i]) >= 1
       /\ IsAlnum(reg_users[i])
       /\ Lower(reg_users[i]) = reg_users[i]

\* three users registered, one of them from a request that spelled the name
\* with capitals, and a REG for one of them just refused
C18_Witness ==
  /\ Len(reg_users) = 3
  /\ Registered(NameMax, reg_users)
  /\ NameMax # Lower(NameMax)
  /\ lastReq = Wire(<<REG, NameMax>>)
  /\ lastResp = Resp(UAE)


---------------------------------------------------------------------------
\* C19 (as claimed): every username the server accepts for registration is
\* usable for quotes: if REG,u; was answered ROK and no UNR for u was since,
\* then QUO,u,T; with a grammatical ticker list T is answered ROK with
\* prices, never INU and never UNR.
C19_RegisteredCanQuote ==
  \A u \in Usernames, l \in GoodTickerLists :
    (lastReq = Wire(<<QUO, u, l>>) /\ Lower(u) \in regHist) =>
      /\ Len(lastResp) = 1
      /\ Len(lastResp[1]) > 4
      /\ SubSeq(lastResp[1], 1, 4) = ROK \o <<",">>


---------------------------------------------------------------------------
\* C20 (as claimed): retransmission does not change the outcome reported for
\* a stateful command.  With nothing of an earlier action in flight and a
\* network that loses and delays, a REG action for a valid username that is
\* not registered accepts no reply but ROK, and a UNR action for a registered
\* username is never told "not registered".
C20_RetransmissionHarmless ==
  (accepted # <<>> /\ actInfo.clean) =>
    /\ (actInfo.kind = "reg" /\ ~actInfo.reg)
         => <<accepted[1].pkt>> = Resp(ROK)
    /\ (actInfo.kind = "unr" /\ actInfo.reg)
         => <<accepted[1].pkt>> # Resp(UNR)

\* C20 (amended): under the same conditions the reply accepted for the REG
\* action is ROK or UAE, and UAE only after the request was sent more than
\* once (the server then answers a later copy, having registered the name on
\* an earlier one); either way the name is registered from then on.  Likewise
\* the reply accepted for the UNR action is ROK or UNR, UNR only after a
\* retransmission, and the name is not registered from then on.
C20_RetransmissionOutcome ==
  (accepted # <<>> /\ actInfo.clean) =>
    /\ (actInfo.kind = "reg" /\ ~actInfo.reg) =>
         /\ <<accepted[1].pkt>> \in {Resp(ROK), Resp(UAE)}
         /\ <<accepted[1].pkt>> = Resp(UAE) => Len(sent) >= 2
         /\ NameOnWire(out_pkt) \in Members(reg_users)
    /\ (actInfo.kind = "unr" /\ actInfo.reg) =>
         /\ <<accepted[1].pkt>> \in {Resp(ROK), Resp(UNR)}
         /\ <<accepted[1].pkt>> = Resp(UNR) => Len(sent) >= 2
         /\ NameOnWire(out_pkt) \notin Members(reg_users)

\* a REG action for an unregistered name, begun with nothing in flight, has
\* been told "Username already exists"
C20_Witness ==
  /\ cli_pc = "prompt"
  /\ actInfo = [kind |-> "reg", reg |-> FALSE, clean |-> TRUE]
  /\ accepted # <<>>
  /\ <<accepted[1].pkt>> = Resp(UAE)
  /\ accepted[1].act = actNo

====
